---- MODULE Spec2Model ----
(***************************************************************************)
(* A model of lit_image_classifier.py: the cli_main pipeline (arguments,   *)
(* seeding, MNIST loading, stratified train/validation split, loaders,     *)
(* model and trainer construction, fit, optional test) and the             *)
(* LitImageClassifier / Backbone module methods.                           *)
(*                                                                         *)
(* Real numbers (val_size, learning_rate, tensor entries) are modelled as  *)
(* exact rationals / integers.  Library calls (argparse, numpy's global    *)
(* generator, sklearn's train_test_split, torch's DataLoader / Subset,     *)
(* Lightning's Trainer) are modelled by what the library does.             *)
(***************************************************************************)
EXTENDS Integers, Sequences, FiniteSets, TLC

VARIABLES
    argv,             \* the command line of the process (sys.argv[1:])
    disk,             \* the MNIST files in the dataset root '' (None: not downloaded)
    pc,               \* position of cli_main
    args,             \* the Namespace returned by parse_args()
    rng,              \* the states of numpy's and torch's global generators
    mnist_train_val,  \* MNIST('', train=True, ...)
    mnist_test,       \* MNIST('', train=False, ...)
    train_idx,        \* first result of train_test_split
    val_idx,          \* second result of train_test_split
    mnist_train,      \* Subset(mnist_train_val, train_idx)
    mnist_val,        \* Subset(mnist_train_val, val_idx)
    train_loader,
    val_loader,
    test_loader,
    model,            \* LitImageClassifier instance
    trainer,          \* pl.Trainer instance, with the calls made on it
    calls,            \* history: the stages cli_main has entered, in order
    seen,             \* history: <<step method, dataset, index>> fed to a step
    printed,          \* what print(result) wrote
    exc,              \* the stage whose call raised (None: nothing raised)
    prev,             \* history: the split of the previous run of the script
    x,                \* module methods: the input batch tensor
    y,                \* module methods: the batch targets
    out               \* module methods: result of each method called on (x, y)

vars == <<argv, disk, pc, args, rng, mnist_train_val, mnist_test, train_idx,
          val_idx, mnist_train, mnist_val, train_loader, val_loader,
          test_loader, model, trainer, calls, seen, printed, exc, prev,
          x, y, out>>

\* Python's None, and the None that stands for a raised exception in a result
None == [none |-> TRUE]
\* a flag of the command line: absent, or given with a token (a string,
\* as the sequence of its characters)
Absent == [given |-> FALSE]
Given(tok) == [given |-> TRUE, tok |-> tok]
\* the result of a conversion: a value, or ValueError
Ok(v) == [ok |-> TRUE, val |-> v]
ValueError == [ok |-> FALSE]

-----------------------------------------------------------------------------
(* Bounds of the model. *)

\* Size of the train_val dataset.
MaxN == 5
\* Size of the test dataset.
TestN == 2
\* Largest initial (unseeded) state of a global generator.
MaxEntropy == 1
\* Largest batch size N and hidden_dim the module methods are applied to.
MaxBatch == 2
MaxHidden == 2

-----------------------------------------------------------------------------
(* Rationals: [num, den] with den > 0. *)

Rat(n, d) == [num |-> n, den |-> d]
RatEq(a, b) == a.num * b.den = b.num * a.den
RatLt(a, b) == a.num * b.den < b.num * a.den

\* ceil(r * n) for a rational r >= 0 and an integer n >= 0
CeilMul(r, n) == ((r.num * n) + r.den - 1) \div r.den

RECURSIVE Pow10(_)
Pow10(k) == IF k = 0 THEN 1 ELSE 10 * Pow10(k - 1)

-----------------------------------------------------------------------------
(* Sequences. *)

Range(s) == {s[i] : i \in 1..Len(s)}

RECURSIVE SumSeq(_)
SumSeq(s) == IF s = <<>> THEN 0 ELSE Head(s) + SumSeq(Tail(s))

Take(s, k) == SubSeq(s, 1, k)
RemoveAt(s, i) == SubSeq(s, 1, i - 1) \o SubSeq(s, i + 1, Len(s))

\* the ascending sequence of a finite set of integers
RECURSIVE SortedSeq(_)
SortedSeq(S) ==
    IF S = {} THEN <<>>
    ELSE LET m == CHOOSE v \in S : \A w \in S : v <= w
         IN <<m>> \o SortedSeq(S \ {m})

Min(a, b) == IF a <= b THEN a ELSE b

-----------------------------------------------------------------------------
(* argparse: the type= conversions int() and float() on a token, a        *)
(* sequence of characters.                                                 *)

Digits == <<"0", "1", "2", "3", "4", "5", "6", "7", "8", "9">>
IsDigit(c) == \E i \in 1..10 : Digits[i] = c
DigitVal(c) == (CHOOSE i \in 1..10 : Digits[i] = c) - 1

RECURSIVE DecimalVal(_)
DecimalVal(tok) ==
    IF tok = <<>> THEN 0
    ELSE 10 * DecimalVal(SubSeq(tok, 1, Len(tok) - 1)) + DigitVal(tok[Len(tok)])

AllDigits(tok) == \A i \in 1..Len(tok) : IsDigit(tok[i])

\* a leading minus sign, and the token after it
IsNegative(tok) == tok # <<>> /\ tok[1] = "-"
Unsigned(tok) == IF IsNegative(tok) THEN Tail(tok) ELSE tok

\* int(tok)
ParseInt(tok) ==
    LET body == Unsigned(tok)
    IN IF body # <<>> /\ AllDigits(body)
       THEN Ok(IF IsNegative(tok) THEN -DecimalVal(body) ELSE DecimalVal(body))
       ELSE ValueError

\* float(tok): an optional sign, digits, optionally a point and more digits
ParseFloat(tok) ==
    LET body == Unsigned(tok)
        sign == IF IsNegative(tok) THEN -1 ELSE 1
        dots == {i \in 1..Len(body) : body[i] = "."}
    IN IF dots = {} THEN
           IF body # <<>> /\ AllDigits(body) THEN Ok(Rat(sign * DecimalVal(body), 1))
           ELSE ValueError
       ELSE IF Cardinality(dots) > 1 THEN ValueError
       ELSE LET d == CHOOSE i \in dots : TRUE
                ip == SubSeq(body, 1, d - 1)
                fp == SubSeq(body, d + 1, Len(body))
            IN IF (ip \o fp) # <<>> /\ AllDigits(ip) /\ AllDigits(fp)
               THEN Ok(Rat(sign * DecimalVal(ip \o fp), Pow10(Len(fp))))
               ELSE ValueError

\* parser.add_argument(..., type=conv, default=dflt) applied to the command line
Option(flag, dflt, conv(_)) == IF flag.given THEN conv(flag.tok) ELSE Ok(dflt)

\* LitImageClassifier.add_model_specific_args: --learning_rate, default 0.0001
add_model_specific_args(cmd) ==
    Option(cmd.learning_rate, Rat(1, 10000), ParseFloat)

\* parse_args(): the Namespace, or None when argparse rejects the command line
parse_args(cmd) ==
    LET batch_size    == Option(cmd.batch_size, 32, ParseInt)
        hidden_dim    == Option(cmd.hidden_dim, 128, ParseInt)
        num_workers   == Option(cmd.num_workers, 8, ParseInt)
        random_seed   == Option(cmd.random_seed, 1234, ParseInt)
        val_size      == Option(cmd.val_size, Rat(15, 100), ParseFloat)
        learning_rate == add_model_specific_args(cmd)
    IN IF batch_size.ok /\ hidden_dim.ok /\ num_workers.ok /\ random_seed.ok
          /\ val_size.ok /\ learning_rate.ok
       THEN [batch_size    |-> batch_size.val,
             hidden_dim    |-> hidden_dim.val,
             num_workers   |-> num_workers.val,
             random_seed   |-> random_seed.val,
             val_size      |-> val_size.val,
             evaluate      |-> cmd.evaluate,
             learning_rate |-> learning_rate.val]
       ELSE None

-----------------------------------------------------------------------------
(* numpy's global generator, as a linear congruential generator.          *)

RngNext(s) == (5 * s + 3) % 16

\* np.random.seed(seed), reached through pl.seed_everything(seed)
Seeded(seed) == seed % 16

\* rng.permutation(seq): [perm, rng]
RECURSIVE Permutation(_, _)
Permutation(s, seq) ==
    IF seq = <<>> THEN [perm |-> <<>>, rng |-> s]
    ELSE LET s1 == RngNext(s)
             i == (s1 % Len(seq)) + 1
             rest == Permutation(s1, RemoveAt(seq, i))
         IN [perm |-> <<seq[i]>> \o rest.perm, rng |-> rest.rng]

\* rng.choice(inds, size=k, replace=False): [chosen, rng]
Choice(s, inds, k) ==
    LET p == Permutation(s, inds)
    IN [chosen |-> Range(Take(p.perm, k)), rng |-> p.rng]

-----------------------------------------------------------------------------
(* sklearn.model_selection.train_test_split(np.arange(n), test_size=...,   *)
(* stratify=targets).  Indices are 0-based, as np.arange gives them;       *)
(* targets[i + 1] is the label of index i.  None stands for ValueError.    *)

\* _validate_shuffle_split with a float test_size and train_size=None
validate_shuffle_split(n_samples, test_size) ==
    IF ~RatLt(Rat(0, 1), test_size) \/ ~RatLt(test_size, Rat(1, 1)) THEN None
    ELSE LET n_test == CeilMul(test_size, n_samples)
             n_train == n_samples - n_test
         IN IF n_train = 0 THEN None
            ELSE [n_train |-> n_train, n_test |-> n_test]

Reverse(s) == [i \in 1..Len(s) |-> s[Len(s) + 1 - i]]

\* the loop of _approximate_mode over the distinct remainders, largest first
RECURSIVE AddByRemainder(_, _, _, _, _)
AddByRemainder(floored, remainder, values, need_to_add, s) ==
    IF need_to_add = 0 \/ values = <<>> THEN [counts |-> floored, rng |-> s]
    ELSE LET value == Head(values)
             inds == SortedSeq({i \in 1..Len(remainder) : remainder[i] = value})
             add_now == Min(Len(inds), need_to_add)
             c == Choice(s, inds, add_now)
             fl == [i \in 1..Len(floored) |->
                       IF i \in c.chosen THEN floored[i] + 1 ELSE floored[i]]
         IN AddByRemainder(fl, remainder, Tail(values), need_to_add - add_now, c.rng)

\* _approximate_mode(class_counts, n_draws, rng): [counts, rng]
approximate_mode(class_counts, n_draws, s) ==
    LET total == SumSeq(class_counts)
        floored == [i \in 1..Len(class_counts) |-> (class_counts[i] * n_draws) \div total]
        remainder == [i \in 1..Len(class_counts) |-> (class_counts[i] * n_draws) % total]
        need_to_add == n_draws - SumSeq(floored)
        values == Reverse(SortedSeq(Range(remainder)))
    IN IF need_to_add > 0
       THEN AddByRemainder(floored, remainder, values, need_to_add, s)
       ELSE [counts |-> floored, rng |-> s]

\* the loop over the classes in StratifiedShuffleSplit._iter_indices
RECURSIVE PerClass(_, _, _, _, _)
PerClass(class_indices, n_i, t_i, c, s) ==
    IF c > Len(class_indices) THEN [train |-> <<>>, test |-> <<>>, rng |-> s]
    ELSE LET p == Permutation(s, class_indices[c])
             rest == PerClass(class_indices, n_i, t_i, c + 1, p.rng)
         IN [train |-> Take(p.perm, n_i[c]) \o rest.train,
             test  |-> SubSeq(p.perm, n_i[c] + 1, n_i[c] + t_i[c]) \o rest.test,
             rng   |-> rest.rng]

\* StratifiedShuffleSplit(test_size=n_test, train_size=n_train).split, first split
StratifiedShuffleSplit(targets, n_train, n_test, s) ==
    LET n == Len(targets)
        classes == SortedSeq(Range(targets))
        n_classes == Len(classes)
        class_indices == [c \in 1..n_classes |->
                             SortedSeq({i \in 0..(n - 1) : targets[i + 1] = classes[c]})]
        class_counts == [c \in 1..n_classes |-> Len(class_indices[c])]
    IN IF \E c \in 1..n_classes : class_counts[c] < 2 THEN None
       ELSE IF n_train < n_classes \/ n_test < n_classes THEN None
       ELSE LET ni == approximate_mode(class_counts, n_train, s)
                remaining == [c \in 1..n_classes |-> class_counts[c] - ni.counts[c]]
                ti == approximate_mode(remaining, n_test, ni.rng)
                per == PerClass(class_indices, ni.counts, ti.counts, 1, ti.rng)
                tr == Permutation(per.rng, per.train)
                te == Permutation(tr.rng, per.test)
            IN [train |-> tr.perm, test |-> te.perm, rng |-> te.rng]

\* train_test_split(np.arange(n), test_size=test_size, stratify=targets)
train_test_split(n, test_size, targets, s) ==
    LET sizes == validate_shuffle_split(n, test_size)
    IN IF sizes = None THEN None
       ELSE StratifiedShuffleSplit(targets, sizes.n_train, sizes.n_test, s)

-----------------------------------------------------------------------------
(* torch.utils.data and torchvision.datasets.MNIST.                        *)

\* MNIST(root, train=..., download=True) once the files are on disk
MNIST(files, train) ==
    [train |-> train, targets |-> IF train THEN files.train_val ELSE files.test]

Subset(dataset, indices) == [dataset |-> dataset, indices |-> indices]

IsSubset(ds) == "indices" \in DOMAIN ds

DatasetLen(ds) == IF IsSubset(ds) THEN Len(ds.indices) ELSE Len(ds.targets)

\* ds[i] for a 0-based position i: the example it denotes
GetItem(ds, i) ==
    IF IsSubset(ds)
    THEN [train |-> ds.dataset.train, index |-> ds.indices[i + 1]]
    ELSE [train |-> ds.train, index |-> i]

\* DataLoader(dataset, batch_size=..., num_workers=...); None stands for ValueError
DataLoader(dataset, batch_size, num_workers) ==
    IF batch_size <= 0 \/ num_workers < 0 THEN None
    ELSE [dataset |-> dataset, batch_size |-> batch_size, num_workers |-> num_workers]

\* number of batches of a loader (drop_last=False)
NumBatches(loader) ==
    (DatasetLen(loader.dataset) + loader.batch_size - 1) \div loader.batch_size

\* the examples of the k-th batch (1-based) of a loader, sequential sampler
Batch(loader, k) ==
    LET lo == (k - 1) * loader.batch_size
        hi == Min(k * loader.batch_size, DatasetLen(loader.dataset)) - 1
    IN {GetItem(loader.dataset, i) : i \in lo..hi}

-----------------------------------------------------------------------------
(* Tensors: [shape, data], data in row-major order; entries are integers.  *)
(* Error stands for the RuntimeError of a shape mismatch.                  *)

Error == [error |-> TRUE]
IsTensor(t) == "shape" \in DOMAIN t

\* x.view(x.size(0), -1)
view(t) ==
    IF Len(t.shape) = 0 \/ t.shape[1] = 0 THEN Error
    ELSE [shape |-> <<t.shape[1], Len(t.data) \div t.shape[1]>>, data |-> t.data]

\* torch.relu
relu(t) ==
    IF ~IsTensor(t) THEN Error
    ELSE [shape |-> t.shape,
          data  |-> [i \in 1..Len(t.data) |-> IF t.data[i] > 0 THEN t.data[i] ELSE 0]]

\* the parameters of a Linear layer, as its initialisation init left them:
\* weight[j][i] and bias[j], for output j and input i (1-based)
Weight(layer, j, i) == ((layer.init + 2 * j + i) % 3) - 1
Bias(layer, j) == ((layer.init + j) % 3) - 1

\* sum over i in lo..hi of weight[j][i] * data[off + i]
RECURSIVE Dot(_, _, _, _, _, _)
Dot(layer, j, data, off, lo, hi) ==
    IF lo > hi THEN 0
    ELSE IF lo = hi THEN Weight(layer, j, lo) * data[off + lo]
    ELSE LET mid == (lo + hi) \div 2
         IN Dot(layer, j, data, off, lo, mid) + Dot(layer, j, data, off, mid + 1, hi)

\* layer(t) for a 2-d tensor t: t @ weight.T + bias
ApplyLinear(layer, t) ==
    IF ~IsTensor(t) THEN Error
    ELSE IF Len(t.shape) # 2 \/ t.shape[2] # layer.in_features THEN Error
    ELSE LET rows == t.shape[1]
             m == layer.out_features
         IN [shape |-> <<rows, m>>,
             data  |-> [k \in 1..(rows * m) |->
                          LET n == (k - 1) \div m
                              j == ((k - 1) % m) + 1
                          IN Bias(layer, j)
                             + Dot(layer, j, t.data, n * layer.in_features,
                                   1, layer.in_features)]]

\* F.cross_entropy(input, target): the loss, as a term over its arguments
cross_entropy(input, target) ==
    IF ~IsTensor(input) THEN Error
    ELSE [op |-> "cross_entropy", input |-> input, target |-> target]

-----------------------------------------------------------------------------
(* Backbone and LitImageClassifier: construction and the optimizer.        *)

\* torch.nn.Linear(in_features, out_features); init names the initial weights
Linear(in_features, out_features, init) ==
    [in_features |-> in_features, out_features |-> out_features, init |-> init]

\* faulty variant: the output layer is built with hidden_dim outputs
Backbone_wrong_out(hidden_dim, init) ==
    [l1 |-> Linear(28 * 28, hidden_dim, init),
     l2 |-> Linear(hidden_dim, hidden_dim, init + 1)]

\* Backbone.__init__(hidden_dim)
Backbone(hidden_dim, init) ==
    [l1 |-> Linear(28 * 28, hidden_dim, init),
     l2 |-> Linear(hidden_dim, 10, init + 1)]

\* LitImageClassifier.__init__(backbone, learning_rate) with save_hyperparameters()
LitImageClassifier(backbone, learning_rate) ==
    [backbone |-> backbone, hparams |-> [learning_rate |-> learning_rate]]

\* LitImageClassifier.configure_optimizers
configure_optimizers(self) ==
    [optimizer |-> "Adam", lr |-> self.hparams.learning_rate]

\* faulty variant: no activation after the output layer
Backbone_forward_linear_out(self, t) ==
    LET flat == view(t)
        h == relu(ApplyLinear(self.l1, flat))
    IN ApplyLinear(self.l2, h)

\* Backbone.forward
Backbone_forward(self, t) ==
    LET flat == view(t)
        h == relu(ApplyLinear(self.l1, flat))
    IN relu(ApplyLinear(self.l2, h))

\* LitImageClassifier.forward
LitImageClassifier_forward(self, t) == Backbone_forward(self.backbone, t)

\* self.log(name, value, on_step=..., on_epoch=...); "None" is the default
Log(name, value, on_step, on_epoch) ==
    [name |-> name, value |-> value, on_step |-> on_step, on_epoch |-> on_epoch]

\* a method's effect: what it returns and the self.log calls it made
Result(ret, logged) == [called |-> TRUE, ret |-> ret, logged |-> logged]
NotCalled == [called |-> FALSE]

\* LitImageClassifier.training_step
training_step(self, batch) ==
    LET y_hat == Backbone_forward(self.backbone, batch.x)
        loss == cross_entropy(y_hat, batch.y)
    IN Result(loss, <<Log("train_loss", loss, "None", "True")>>)

\* faulty variant: validation_step logs under the training metric's name
validation_step_train_name(self, batch) ==
    LET y_hat == Backbone_forward(self.backbone, batch.x)
        loss == cross_entropy(y_hat, batch.y)
    IN Result(None, <<Log("train_loss", loss, "True", "None")>>)

\* LitImageClassifier.validation_step
validation_step(self, batch) ==
    LET y_hat == Backbone_forward(self.backbone, batch.x)
        loss == cross_entropy(y_hat, batch.y)
    IN Result(None, <<Log("valid_loss", loss, "True", "None")>>)

\* LitImageClassifier.test_step
test_step(self, batch) ==
    LET y_hat == Backbone_forward(self.backbone, batch.x)
        loss == cross_entropy(y_hat, batch.y)
    IN Result(None, <<Log("test_loss", loss, "None", "None")>>)

-----------------------------------------------------------------------------
(* The inputs of a run: the command line, the dataset that a download      *)
(* writes to disk, the initial state of the generator.                     *)

Flag(toks) == {Absent} \cup {Given(t) : t \in toks}

CommandLines ==
    [batch_size    : Flag({<<"2">>}),
     hidden_dim    : Flag({<<"1">>}),
     num_workers   : Flag({<<"0">>}),
     random_seed   : Flag({<<"7">>, <<"-", "1">>}),
     val_size      : Flag({<<"0", ".", "5">>, <<"0", ".", "4">>, <<"1">>}),
     evaluate      : BOOLEAN,
     learning_rate : Flag({<<"0", ".", "0", "1">>})]

\* the digit classes the modelled datasets use
Labels == {0, 1}

\* the targets of the train=True files: every labelling of MaxN examples
TrainValTargets == [1..MaxN -> Labels]

\* the targets of the train=False files
TestTargets == [i \in 1..TestN |-> (i - 1) % 2]

Entropy == 0..MaxEntropy

\* the global generators of a fresh process
Generators == [numpy : Entropy, torch : Entropy]

-----------------------------------------------------------------------------
(* cli_main.                                                               *)

NoExc == "none"

\* the stages of cli_main in program order, as recorded in calls
Order == <<"parse_args", "seed_everything", "MNIST", "train_test_split",
           "DataLoader", "LitImageClassifier", "Trainer", "fit", "test", "print">>

Fresh ==
    /\ pc = "parse_args"
    /\ args = None
    /\ mnist_train_val = None /\ mnist_test = None
    /\ train_idx = <<>> /\ val_idx = <<>>
    /\ mnist_train = None /\ mnist_val = None
    /\ train_loader = None /\ val_loader = None /\ test_loader = None
    /\ model = None /\ trainer = None
    /\ calls = <<>> /\ seen = {} /\ printed = <<>> /\ exc = NoExc

Init ==
    /\ argv \in CommandLines
    /\ disk = None
    /\ rng \in Generators
    /\ prev = None
    /\ x = None /\ y = None /\ out = None
    /\ Fresh

\* faulty variant: a failure inside trainer.fit is swallowed and cli_main goes on
Raises_swallowed(stage) ==
    IF stage = "fitting"
    THEN pc' = "evaluate" /\ exc' = stage
    ELSE pc' = "raised" /\ exc' = stage

\* the current call raises: the exception leaves cli_main
Raises(stage) ==
    /\ pc' = "raised"
    /\ exc' = stage

\* line 93: args = parse_args()
ParseArgs ==
    /\ pc = "parse_args"
    /\ calls' = Append(calls, "parse_args")
    /\ LET ns == parse_args(argv)
       IN IF ns = None
          THEN Raises("parse_args") /\ UNCHANGED args
          ELSE args' = ns /\ pc' = "seed_everything" /\ UNCHANGED exc
    /\ UNCHANGED <<argv, disk, rng, mnist_train_val, mnist_test, train_idx, val_idx,
                   mnist_train, mnist_val, train_loader, val_loader, test_loader,
                   model, trainer, seen, printed, prev, x, y, out>>

\* np.iinfo(np.uint32).min <= seed <= np.iinfo(np.uint32).max; the upper
\* bound, 2^32 - 1, is above every integer of the model
InSeedBounds(seed) == 0 <= seed

\* faulty variant: the seed reaches torch's generator only, not numpy's
seed_everything_torch_only(seed, g) ==
    {[numpy |-> g.numpy, torch |-> Seeded(k)] :
        k \in (IF InSeedBounds(seed) THEN {seed} ELSE Entropy)}

\* pl.seed_everything(seed) on the generators g: the states it may leave them
\* in.  A seed out of numpy's bounds is replaced by a randomly selected one.
seed_everything(seed, g) ==
    {[numpy |-> Seeded(k), torch |-> Seeded(k)] :
        k \in (IF InSeedBounds(seed) THEN {seed} ELSE Entropy)}

\* line 96: pl.seed_everything(args.random_seed)
SeedEverything ==
    /\ pc = "seed_everything"
    /\ calls' = Append(calls, "seed_everything")
    /\ rng' \in seed_everything(args.random_seed, rng)
    /\ pc' = "MNIST"
    /\ UNCHANGED <<argv, disk, args, mnist_train_val, mnist_test, train_idx, val_idx,
                   mnist_train, mnist_val, train_loader, val_loader, test_loader,
                   model, trainer, seen, printed, exc, prev, x, y, out>>

\* lines 101-102: the two MNIST(...) datasets; download=True fetches the files
\* only when they are not on disk
LoadData ==
    /\ pc = "MNIST"
    /\ calls' = Append(calls, "MNIST")
    /\ IF disk = None
       THEN \E t \in TrainValTargets :
                disk' = [train_val |-> t, test |-> TestTargets]
       ELSE disk' = disk
    /\ mnist_train_val' = MNIST(disk', TRUE)
    /\ mnist_test' = MNIST(disk', FALSE)
    /\ pc' = "train_test_split"
    /\ UNCHANGED <<argv, args, rng, train_idx, val_idx, mnist_train, mnist_val,
                   train_loader, val_loader, test_loader, model, trainer, seen,
                   printed, exc, prev, x, y, out>>

\* faulty variant: the validation Subset is built from the training indices
SplitBindings_copied(r) ==
    [train_idx   |-> r.train,
     val_idx     |-> r.test,
     mnist_train |-> Subset(mnist_train_val, r.train),
     mnist_val   |-> Subset(mnist_train_val, r.train)]

\* faulty variant: the two results of train_test_split are unpacked in the wrong order
SplitBindings_swapped(r) ==
    [train_idx   |-> r.test,
     val_idx     |-> r.train,
     mnist_train |-> Subset(mnist_train_val, r.test),
     mnist_val   |-> Subset(mnist_train_val, r.train)]

\* lines 104-109: what cli_main binds from the result r of train_test_split
SplitBindings(r) ==
    [train_idx   |-> r.train,
     val_idx     |-> r.test,
     mnist_train |-> Subset(mnist_train_val, r.train),
     mnist_val   |-> Subset(mnist_train_val, r.test)]

\* lines 104-109: the stratified split and the two Subsets
Split ==
    /\ pc = "train_test_split"
    /\ calls' = Append(calls, "train_test_split")
    /\ LET r == train_test_split(DatasetLen(mnist_train_val), args.val_size,
                                 mnist_train_val.targets, rng.numpy)
       IN IF r = None
          THEN /\ Raises("train_test_split")
               /\ UNCHANGED <<rng, train_idx, val_idx, mnist_train, mnist_val>>
          ELSE /\ train_idx' = SplitBindings(r).train_idx
               /\ val_idx' = SplitBindings(r).val_idx
               /\ rng' = [rng EXCEPT !.numpy = r.rng]
               /\ mnist_train' = SplitBindings(r).mnist_train
               /\ mnist_val' = SplitBindings(r).mnist_val
               /\ pc' = "DataLoader"
               /\ UNCHANGED exc
    /\ UNCHANGED <<argv, disk, args, mnist_train_val, mnist_test, train_loader,
                   val_loader, test_loader, model, trainer, seen, printed, prev,
                   x, y, out>>

\* lines 111-113: the three DataLoader(...) calls
Loaders ==
    [train |-> DataLoader(mnist_train, args.batch_size, args.num_workers),
     val   |-> DataLoader(mnist_val, args.batch_size, args.num_workers),
     test  |-> DataLoader(mnist_test, args.batch_size, args.num_workers)]

\* lines 111-113: the three loaders
BuildLoaders ==
    /\ pc = "DataLoader"
    /\ calls' = Append(calls, "DataLoader")
    /\ LET tr == Loaders.train
           va == Loaders.val
           te == Loaders.test
       IN IF tr = None \/ va = None \/ te = None
          THEN /\ Raises("DataLoader")
               /\ UNCHANGED <<train_loader, val_loader, test_loader>>
          ELSE /\ train_loader' = tr
               /\ val_loader' = va
               /\ test_loader' = te
               /\ pc' = "LitImageClassifier"
               /\ UNCHANGED exc
    /\ UNCHANGED <<argv, disk, args, rng, mnist_train_val, mnist_test, train_idx,
                   val_idx, mnist_train, mnist_val, model, trainer, seen, printed,
                   prev, x, y, out>>

\* faulty variant: the learning rate is not passed on, the constructor default 1e-3 applies
NewModel_default_lr ==
    LitImageClassifier(Backbone(args.hidden_dim, rng.torch), Rat(1, 1000))

\* line 118: LitImageClassifier(Backbone(hidden_dim=args.hidden_dim),
\* args.learning_rate); the initial weights come from torch's generator
NewModel ==
    LitImageClassifier(Backbone(args.hidden_dim, rng.torch), args.learning_rate)

\* line 118: model = LitImageClassifier(...)
ConstructModel ==
    /\ pc = "LitImageClassifier"
    /\ calls' = Append(calls, "LitImageClassifier")
    /\ model' = NewModel
    /\ pc' = "Trainer"
    /\ UNCHANGED <<argv, disk, args, rng, mnist_train_val, mnist_test, train_idx,
                   val_idx, mnist_train, mnist_val, train_loader, val_loader,
                   test_loader, trainer, seen, printed, exc, prev, x, y, out>>

\* line 123: trainer = pl.Trainer.from_argparse_args(args)
ConstructTrainer ==
    /\ pc = "Trainer"
    /\ calls' = Append(calls, "Trainer")
    /\ trainer' = [fit_args |-> None, test_args |-> None, optimizer |-> None,
                   train_batches |-> 0, val_batches |-> 0, test_batches |-> 0,
                   fit_returned |-> FALSE]
    /\ pc' = "fit"
    /\ UNCHANGED <<argv, disk, args, rng, mnist_train_val, mnist_test, train_idx,
                   val_idx, mnist_train, mnist_val, train_loader, val_loader,
                   test_loader, model, seen, printed, exc, prev, x, y, out>>

\* faulty variant: the test loader is handed to fit as validation data
FitArgs_test_as_val ==
    [model |-> model, train_dataloader |-> train_loader, val_dataloaders |-> test_loader]

\* line 124: the arguments of trainer.fit(model, train_loader, val_loader)
FitArgs ==
    [model |-> model, train_dataloader |-> train_loader, val_dataloaders |-> val_loader]

\* line 130: the arguments of trainer.test(test_dataloaders=test_loader)
TestArgs == [test_dataloaders |-> test_loader]

\* faulty variant: the final evaluation is not guarded by the flag
TestEnabled_always == TRUE

\* line 129: if args.evaluate
TestEnabled == args.evaluate

\* line 124: trainer.fit(model, train_loader, val_loader) is entered; the
\* trainer asks the model for its optimizer
TrainerFit ==
    /\ pc = "fit"
    /\ calls' = Append(calls, "fit")
    /\ trainer' = [trainer EXCEPT
                     !.fit_args = FitArgs,
                     !.optimizer = configure_optimizers(FitArgs.model)]
    /\ pc' = "fitting"
    /\ UNCHANGED <<argv, disk, args, rng, mnist_train_val, mnist_test, train_idx,
                   val_idx, mnist_train, mnist_val, train_loader, val_loader,
                   test_loader, model, seen, printed, exc, prev, x, y, out>>

Feed(step, batch) == {[step |-> step, train |-> e.train, index |-> e.index] : e \in batch}

\* inside fit: the trainer feeds the next batch of its training loader to
\* training_step
FitTrainingStep ==
    /\ pc = "fitting"
    /\ trainer.train_batches < NumBatches(trainer.fit_args.train_dataloader)
    /\ seen' = seen \cup Feed("training_step",
                              Batch(trainer.fit_args.train_dataloader,
                                    trainer.train_batches + 1))
    /\ trainer' = [trainer EXCEPT !.train_batches = @ + 1]
    /\ UNCHANGED <<argv, disk, pc, args, rng, mnist_train_val, mnist_test, train_idx,
                   val_idx, mnist_train, mnist_val, train_loader, val_loader,
                   test_loader, model, calls, printed, exc, prev, x, y, out>>

\* inside fit: the trainer feeds the next batch of its validation loader to
\* validation_step
FitValidationStep ==
    /\ pc = "fitting"
    /\ trainer.val_batches < NumBatches(trainer.fit_args.val_dataloaders)
    /\ seen' = seen \cup Feed("validation_step",
                              Batch(trainer.fit_args.val_dataloaders,
                                    trainer.val_batches + 1))
    /\ trainer' = [trainer EXCEPT !.val_batches = @ + 1]
    /\ UNCHANGED <<argv, disk, pc, args, rng, mnist_train_val, mnist_test, train_idx,
                   val_idx, mnist_train, mnist_val, train_loader, val_loader,
                   test_loader, model, calls, printed, exc, prev, x, y, out>>

\* trainer.fit returns after one pass over both loaders
FitReturn ==
    /\ pc = "fitting"
    /\ trainer.train_batches = NumBatches(trainer.fit_args.train_dataloader)
    /\ trainer.val_batches = NumBatches(trainer.fit_args.val_dataloaders)
    /\ trainer' = [trainer EXCEPT !.fit_returned = TRUE]
    /\ pc' = "evaluate"
    /\ UNCHANGED <<argv, disk, args, rng, mnist_train_val, mnist_test, train_idx,
                   val_idx, mnist_train, mnist_val, train_loader, val_loader,
                   test_loader, model, calls, seen, printed, exc, prev, x, y, out>>

\* lines 129-130: if args.evaluate: trainer.test(test_dataloaders=test_loader)
TrainerTest ==
    /\ pc = "evaluate"
    /\ TestEnabled
    /\ calls' = Append(calls, "test")
    /\ trainer' = [trainer EXCEPT !.test_args = TestArgs]
    /\ pc' = "testing"
    /\ UNCHANGED <<argv, disk, args, rng, mnist_train_val, mnist_test, train_idx,
                   val_idx, mnist_train, mnist_val, train_loader, val_loader,
                   test_loader, model, seen, printed, exc, prev, x, y, out>>

\* line 129 with the flag unset: cli_main returns
SkipTest ==
    /\ pc = "evaluate"
    /\ ~TestEnabled
    /\ pc' = "done"
    /\ UNCHANGED <<argv, disk, args, rng, mnist_train_val, mnist_test, train_idx,
                   val_idx, mnist_train, mnist_val, train_loader, val_loader,
                   test_loader, model, trainer, calls, seen, printed, exc, prev,
                   x, y, out>>

\* inside test: the trainer feeds the next batch of its test loader to test_step
TestStep ==
    /\ pc = "testing"
    /\ trainer.test_batches < NumBatches(trainer.test_args.test_dataloaders)
    /\ seen' = seen \cup Feed("test_step",
                              Batch(trainer.test_args.test_dataloaders,
                                    trainer.test_batches + 1))
    /\ trainer' = [trainer EXCEPT !.test_batches = @ + 1]
    /\ UNCHANGED <<argv, disk, pc, args, rng, mnist_train_val, mnist_test, train_idx,
                   val_idx, mnist_train, mnist_val, train_loader, val_loader,
                   test_loader, model, calls, printed, exc, prev, x, y, out>>

\* trainer.test returns its list of metrics
TestReturn ==
    /\ pc = "testing"
    /\ trainer.test_batches = NumBatches(trainer.test_args.test_dataloaders)
    /\ pc' = "print"
    /\ UNCHANGED <<argv, disk, args, rng, mnist_train_val, mnist_test, train_idx,
                   val_idx, mnist_train, mnist_val, train_loader, val_loader,
                   test_loader, model, trainer, calls, seen, printed, exc, prev,
                   x, y, out>>

\* line 131: print(result)
PrintResult ==
    /\ pc = "print"
    /\ calls' = Append(calls, "print")
    /\ printed' = Append(printed, <<"test_loss">>)
    /\ pc' = "done"
    /\ UNCHANGED <<argv, disk, args, rng, mnist_train_val, mnist_test, train_idx,
                   val_idx, mnist_train, mnist_val, train_loader, val_loader,
                   test_loader, model, trainer, seen, exc, prev, x, y, out>>

\* the library call of the current stage raises (download error, out of
\* memory, ...): nothing in cli_main catches it
LibraryRaises ==
    /\ pc \in {"parse_args", "seed_everything", "MNIST", "train_test_split",
               "DataLoader", "LitImageClassifier", "Trainer", "fit", "fitting",
               "testing"}
    /\ calls' = IF pc \in {"fitting", "testing"} THEN calls ELSE Append(calls, pc)
    /\ Raises(pc)
    /\ UNCHANGED <<argv, disk, args, rng, mnist_train_val, mnist_test, train_idx,
                   val_idx, mnist_train, mnist_val, train_loader, val_loader,
                   test_loader, model, trainer, seen, printed, prev, x, y, out>>

Next ==
    \/ ParseArgs \/ SeedEverything \/ LoadData \/ Split \/ BuildLoaders
    \/ ConstructModel \/ ConstructTrainer \/ TrainerFit \/ FitTrainingStep
    \/ FitValidationStep \/ FitReturn \/ TrainerTest \/ SkipTest \/ TestStep
    \/ TestReturn \/ PrintResult \/ LibraryRaises

Spec == Init /\ [][Next]_vars

-----------------------------------------------------------------------------
(* The script run a second time in the same directory: the dataset files   *)
(* of the first run are on disk, the generator starts from fresh entropy.  *)

\* command lines that vary the flags the split reads, and the evaluate flag
RerunCommandLines ==
    {c \in CommandLines : /\ ~c.batch_size.given /\ ~c.hidden_dim.given
                          /\ ~c.num_workers.given /\ ~c.learning_rate.given}

InitRerun ==
    /\ argv \in RerunCommandLines
    /\ disk = None
    /\ rng \in Generators
    /\ prev = None
    /\ x = None /\ y = None /\ out = None
    /\ Fresh

\* python lit_image_classifier.py again, after a run that got past the split
Rerun ==
    /\ pc \in {"done", "raised"}
    /\ prev = None
    /\ mnist_train # None
    /\ prev' = [random_seed |-> args.random_seed, val_size |-> args.val_size,
                targets |-> mnist_train_val.targets,
                train_idx |-> train_idx, val_idx |-> val_idx]
    /\ argv' \in RerunCommandLines
    /\ rng' \in Generators
    /\ pc' = "parse_args"
    /\ args' = None
    /\ mnist_train_val' = None /\ mnist_test' = None
    /\ train_idx' = <<>> /\ val_idx' = <<>>
    /\ mnist_train' = None /\ mnist_val' = None
    /\ train_loader' = None /\ val_loader' = None /\ test_loader' = None
    /\ model' = None /\ trainer' = None
    /\ calls' = <<>> /\ seen' = {} /\ printed' = <<>> /\ exc' = NoExc
    /\ UNCHANGED <<disk, x, y, out>>

NextRerun == Next \/ Rerun

SpecRerun == InitRerun /\ [][NextRerun]_vars

-----------------------------------------------------------------------------
(* The module methods, applied to one batch by their caller (the trainer,  *)
(* or a user of the model).                                                *)

\* an MNIST image after transforms.ToTensor(): 1 x 28 x 28, here black or white
Pixel(k, p) == IF k = 0 THEN 0 ELSE IF p % (k + 1) = 0 THEN 1 ELSE 0
ImageIds == {0, 2}
LabelOf(k) == (k * 9) % 10

\* the batch a loader collates from the images ids: x of shape (N, 1, 28, 28)
Collate(ids) ==
    [x |-> [shape |-> <<Len(ids), 1, 28, 28>>,
            data  |-> [q \in 1..(Len(ids) * 28 * 28) |->
                          Pixel(ids[((q - 1) \div (28 * 28)) + 1],
                                ((q - 1) % (28 * 28)) + 1)]],
     y |-> [n \in 1..Len(ids) |-> LabelOf(ids[n])]]

Batches == {Collate(ids) : ids \in UNION {[1..n -> ImageIds] : n \in 1..MaxBatch}}

\* the weight initialisations the models are drawn with
Inits == {0, 1}

Models ==
    {LitImageClassifier(Backbone(h, i), Rat(1, 1000)) : h \in 1..MaxHidden, i \in Inits}

InitModule ==
    /\ argv = None /\ disk = None /\ rng = None /\ prev = None
    /\ pc = "methods"
    /\ args = None
    /\ mnist_train_val = None /\ mnist_test = None
    /\ train_idx = <<>> /\ val_idx = <<>>
    /\ mnist_train = None /\ mnist_val = None
    /\ train_loader = None /\ val_loader = None /\ test_loader = None
    /\ trainer = None
    /\ calls = <<>> /\ seen = {} /\ printed = <<>> /\ exc = NoExc
    /\ model \in Models
    /\ \E b \in Batches : x = b.x /\ y = b.y
    /\ out = [forward |-> NotCalled, training_step |-> NotCalled,
              validation_step |-> NotCalled, test_step |-> NotCalled]

ModuleFrame ==
    UNCHANGED <<argv, disk, pc, args, rng, mnist_train_val, mnist_test, train_idx,
                val_idx, mnist_train, mnist_val, train_loader, val_loader,
                test_loader, model, trainer, calls, seen, printed, exc, prev, x, y>>

\* model(x)
CallForward ==
    /\ pc = "methods"
    /\ ~out.forward.called
    /\ out' = [out EXCEPT !.forward = Result(LitImageClassifier_forward(model, x), <<>>)]
    /\ ModuleFrame

\* model.training_step((x, y), batch_idx)
CallTrainingStep ==
    /\ pc = "methods"
    /\ ~out.training_step.called
    /\ out' = [out EXCEPT !.training_step = training_step(model, [x |-> x, y |-> y])]
    /\ ModuleFrame

\* model.validation_step((x, y), batch_idx)
CallValidationStep ==
    /\ pc = "methods"
    /\ ~out.validation_step.called
    /\ out' = [out EXCEPT !.validation_step = validation_step(model, [x |-> x, y |-> y])]
    /\ ModuleFrame

\* model.test_step((x, y), batch_idx)
CallTestStep ==
    /\ pc = "methods"
    /\ ~out.test_step.called
    /\ out' = [out EXCEPT !.test_step = test_step(model, [x |-> x, y |-> y])]
    /\ ModuleFrame

NextModule == CallForward \/ CallTrainingStep \/ CallValidationStep \/ CallTestStep

SpecModule == InitModule /\ [][NextModule]_vars

-----------------------------------------------------------------------------
(* Properties of cli_main.                                                 *)

\* the examples a dataset or Subset holds
Examples(ds) == {GetItem(ds, i) : i \in 0..(DatasetLen(ds) - 1)}

SplitDone == mnist_train # None

IsPrefix(s, t) == Len(s) <= Len(t) /\ s = SubSeq(t, 1, Len(s))

\* C1: after the split every index 0..n-1 of the train_val dataset is in
\* exactly one of the training and validation subsets (their union is
\* everything, they are disjoint, neither repeats an index), and no example
\* of the test dataset is in either.
C1_EveryExampleInExactlyOneSubset ==
    SplitDone =>
        LET n == DatasetLen(mnist_train_val)
            tr == Examples(mnist_train)
            va == Examples(mnist_val)
            all == {[train |-> TRUE, index |-> i] : i \in 0..(n - 1)}
        IN /\ Range(train_idx) \cup Range(val_idx) = 0..(n - 1)
           /\ Range(train_idx) \cap Range(val_idx) = {}
           /\ Cardinality(Range(train_idx)) = Len(train_idx)
           /\ Cardinality(Range(val_idx)) = Len(val_idx)
           /\ tr \cup va = all
           /\ tr \cap va = {}
           /\ Cardinality(tr) = DatasetLen(mnist_train)
           /\ Cardinality(va) = DatasetLen(mnist_val)
           /\ Examples(mnist_test) \cap (tr \cup va) = {}

\* C1 witness: a split of a MaxN-example dataset with both classes present
C1_Witness ==
    /\ SplitDone
    /\ DatasetLen(mnist_train_val) = MaxN
    /\ Range(mnist_train_val.targets) = Labels
    /\ Len(train_idx) >= 2 /\ Len(val_idx) >= 2

C3_LinearPipeline ==
    /\ IsPrefix(calls, Order)
    /\ ("test" \in Range(calls)) => (args.evaluate /\ trainer.fit_returned)
    /\ (pc = "done" /\ ~args.evaluate) => calls = SubSeq(Order, 1, 8)
    /\ (pc = "done" /\ args.evaluate) => calls = Order

\* C3 witness: a run with the flag set that reached its end through test
C3_Witness ==
    /\ pc = "done"
    /\ args.evaluate
    /\ "test" \in Range(calls)
    /\ trainer.test_batches > 0

\* C8: fit gets the training and the validation loader, both over Subsets of
\* the train=True dataset; the loader of the train=False dataset goes to
\* test only; every example fed to training_step or validation_step is of
\* the train=True dataset.
C8_TestSetHeldOut ==
    /\ (trainer # None /\ trainer.fit_args # None) =>
          /\ trainer.fit_args.train_dataloader = train_loader
          /\ trainer.fit_args.val_dataloaders = val_loader
          /\ train_loader.dataset = mnist_train
          /\ val_loader.dataset = mnist_val
          /\ mnist_train.dataset.train /\ mnist_val.dataset.train
          /\ trainer.fit_args.train_dataloader # test_loader
          /\ trainer.fit_args.val_dataloaders # test_loader
    /\ (trainer # None /\ trainer.test_args # None) =>
          /\ trainer.test_args.test_dataloaders = test_loader
          /\ test_loader.dataset = mnist_test
          /\ ~mnist_test.train
    /\ \A e \in seen :
          /\ e.step \in {"training_step", "validation_step"} => e.train
          /\ e.step = "test_step" => (~e.train /\ trainer.fit_returned)

\* C8 witness: a run that trained, validated and tested
C8_Witness ==
    /\ pc = "done"
    /\ {e.step : e \in seen} = {"training_step", "validation_step", "test_step"}

\* the stage recorded in calls for the place an exception was raised at
StageOf(e) == IF e = "fitting" THEN "fit" ELSE IF e = "testing" THEN "test" ELSE e

\* C6: a failure of any stage leaves cli_main: the run is at "raised", the
\* failing stage is the last one entered, nothing runs afterwards; when
\* trainer.fit fails, trainer.test is never called and nothing is printed.
C6_FailuresPropagate ==
    /\ [](exc # NoExc => (pc = "raised" /\ calls # <<>>
                          /\ calls[Len(calls)] = StageOf(exc)))
    /\ [](pc = "raised" => exc # NoExc)
    /\ [](exc \in {"fit", "fitting"} => ("test" \notin Range(calls) /\ printed = <<>>))
    /\ [][pc = "raised" => UNCHANGED <<pc, exc, calls, seen, printed, trainer>>]_vars

\* C6 witness: trainer.fit failed part-way in a run with the evaluate flag set
C6_Witness ==
    /\ pc = "raised"
    /\ exc = "fitting"
    /\ args.evaluate
    /\ seen # {}

\* C7: the Namespace is what parse_args made of the command line and never
\* changes; the loaders use its batch_size and num_workers, the backbone its
\* hidden_dim, the split its val_size, and the optimizer's lr is its
\* learning_rate: 0.0001 when the flag is omitted, not the constructor's 1e-3.
C7_HyperparametersFixed ==
    /\ [][args # None => args' = args]_vars
    /\ [](args # None => args = parse_args(argv))
    /\ [](train_loader # None =>
            \A l \in {train_loader, val_loader, test_loader} :
                l.batch_size = args.batch_size /\ l.num_workers = args.num_workers)
    /\ [](model # None =>
            /\ model.backbone.l1.out_features = args.hidden_dim
            /\ model.backbone.l2.in_features = args.hidden_dim
            /\ model.hparams.learning_rate = args.learning_rate)
    /\ [](SplitDone =>
            DatasetLen(mnist_val) = CeilMul(args.val_size, DatasetLen(mnist_train_val)))
    /\ []((trainer # None /\ trainer.optimizer # None) =>
            /\ trainer.optimizer.lr = args.learning_rate
            /\ ~argv.learning_rate.given =>
                  /\ RatEq(trainer.optimizer.lr, Rat(1, 10000))
                  /\ ~RatEq(trainer.optimizer.lr, Rat(1, 1000)))

\* C7 witness: the optimizer was made in a run without --learning_rate and
\* with the other flags given
C7_Witness ==
    /\ trainer # None
    /\ trainer.optimizer # None
    /\ ~argv.learning_rate.given
    /\ argv.batch_size.given /\ argv.hidden_dim.given /\ argv.num_workers.given
    /\ argv.val_size.given

\* C9 as claimed: two runs with the same random_seed, the same val_size and
\* the same dataset produce identical train_idx and val_idx, in the same
\* order.
C9_SplitDeterministic ==
    (/\ prev # None
     /\ SplitDone
     /\ args.random_seed = prev.random_seed
     /\ RatEq(args.val_size, prev.val_size)
     /\ mnist_train_val.targets = prev.targets)
        => (train_idx = prev.train_idx /\ val_idx = prev.val_idx)

\* C9 as amended: two runs with the same random_seed within numpy's seed
\* bounds, the same val_size and the same dataset produce identical
\* train_idx and val_idx, in the same order.
C9_SplitDeterministicInBounds ==
    (/\ prev # None
     /\ SplitDone
     /\ args.random_seed = prev.random_seed
     /\ InSeedBounds(args.random_seed)
     /\ RatEq(args.val_size, prev.val_size)
     /\ mnist_train_val.targets = prev.targets)
        => (train_idx = prev.train_idx /\ val_idx = prev.val_idx)

\* C9 witness: a second run that split the same data with the same seed and
\* val_size as the first
C9_Witness ==
    /\ prev # None
    /\ SplitDone
    /\ args.random_seed = prev.random_seed
    /\ InSeedBounds(args.random_seed)
    /\ RatEq(args.val_size, prev.val_size)
    /\ Len(train_idx) >= 2 /\ Len(val_idx) >= 2
    /\ Range(mnist_train_val.targets) = Labels

-----------------------------------------------------------------------------
(* Properties of the module methods.                                       *)

AllStepsCalled ==
    /\ out # None
    /\ out.training_step.called
    /\ out.validation_step.called
    /\ out.test_step.called

\* each step made one self.log call, of the cross-entropy loss of
\* backbone(x) against y, under its own metric name
StepsLogSameLoss ==
    LET t == out.training_step
        v == out.validation_step
        s == out.test_step
    IN /\ Len(t.logged) = 1 /\ Len(v.logged) = 1 /\ Len(s.logged) = 1
       /\ t.logged[1].value = v.logged[1].value
       /\ v.logged[1].value = s.logged[1].value
       /\ t.logged[1].value.op = "cross_entropy"
       /\ t.logged[1].value.target = y
       /\ out.forward.called => t.logged[1].value.input = out.forward.ret
       /\ t.logged[1].name = "train_loss"
       /\ v.logged[1].name = "valid_loss"
       /\ s.logged[1].name = "test_loss"

\* C4 as claimed: the three step methods log the same loss once each and,
\* apart from the metric name, have the same logging options and the same
\* return value.
C4_StepsDifferOnlyInName ==
    AllStepsCalled =>
        LET t == out.training_step
            v == out.validation_step
            s == out.test_step
        IN /\ StepsLogSameLoss
           /\ t.logged[1].on_step = v.logged[1].on_step
           /\ v.logged[1].on_step = s.logged[1].on_step
           /\ t.logged[1].on_epoch = v.logged[1].on_epoch
           /\ v.logged[1].on_epoch = s.logged[1].on_epoch
           /\ t.ret = v.ret
           /\ v.ret = s.ret

\* C4 as amended: the three step methods log the same loss once each under
\* their own metric names; they also differ in the logging options
\* (training_step on_epoch=True, validation_step on_step=True, test_step
\* neither) and in the return value (training_step returns the loss, the
\* other two return None).
C4_StepsLogSameLossDifferInOptions ==
    AllStepsCalled =>
        LET t == out.training_step
            v == out.validation_step
            s == out.test_step
        IN /\ StepsLogSameLoss
           /\ t.logged[1].on_step = "None" /\ t.logged[1].on_epoch = "True"
           /\ v.logged[1].on_step = "True" /\ v.logged[1].on_epoch = "None"
           /\ s.logged[1].on_step = "None" /\ s.logged[1].on_epoch = "None"
           /\ t.ret = t.logged[1].value
           /\ v.ret = None
           /\ s.ret = None

\* C4 witness: all three steps were called on a batch of more than one image
C4_Witness ==
    /\ AllStepsCalled
    /\ out.forward.called
    /\ x.shape[1] > 1

\* C5: on a batch of shape (N, 1, 28, 28) the forward pass returns a tensor
\* of shape (N, 10), through (N, 784) and (N, hidden_dim);
\* LitImageClassifier.forward returns what the backbone returns.
C5_ForwardShape ==
    (out # None /\ out.forward.called) =>
        LET N == x.shape[1]
            hidden_dim == model.backbone.l1.out_features
            flat == view(x)
            h == ApplyLinear(model.backbone.l1, flat)
            r == out.forward.ret
        IN /\ x.shape = <<N, 1, 28, 28>>
           /\ IsTensor(flat) /\ flat.shape = <<N, 784>>
           /\ IsTensor(h) /\ h.shape = <<N, hidden_dim>>
           /\ IsTensor(r) /\ r.shape = <<N, 10>>
           /\ Len(r.data) = N * 10
           /\ out.training_step.called => r = out.training_step.ret.input

\* C5 witness: forward was applied to the largest batch by the widest model
C5_Witness ==
    /\ out # None
    /\ out.forward.called
    /\ out.training_step.called
    /\ x.shape[1] = MaxBatch
    /\ model.backbone.l1.out_features = MaxHidden

\* the scores a step fed to cross_entropy, and those forward returned
ScoresComputed ==
    {out[m].logged[1].value.input :
        m \in {m \in {"training_step", "validation_step", "test_step"} : out[m].called}}
    \cup (IF out.forward.called THEN {out.forward.ret} ELSE {})

====
